---- MODULE Spec2Model ----
(***************************************************************************)
(* PollyXT -> SCC conversion: the generator convert_pollyxt_file and the   *)
(* two file builders create_scc_netcdf / create_scc_calibration_netcdf of  *)
(* pollyxt_pipelines/polly_to_scc/scc_netcdf.py.                           *)
(*                                                                         *)
(* Time is counted in whole seconds since midnight of day 0 of the run.    *)
(* A datetime is one integer; a timedelta is one integer.                  *)
(***************************************************************************)
EXTENDS Integers, Sequences, FiniteSets, TLC

VARIABLES
    repo,               \* the PollyXTRepository handed to convert_pollyxt_file
    interval,           \* parameter / local `interval` (seconds)
    should_round,       \* parameter
    calibration,        \* parameter
    start_time,         \* parameter / local `start_time`
    end_time,           \* parameter / local `end_time`
    measurement_start,  \* local
    measurement_end,    \* local
    interval_start,     \* local (the cursor)
    interval_end,       \* local
    pf,                 \* local: the subset last returned by get_pollyxt_file
    cal_index,          \* position of the for loop over get_calibration_periods()
    pc,                 \* where the generator stands
    raised,             \* the exception that ended the run ("none" while running)
    requests,           \* every repo.get_pollyxt_file call so far, in order
    windows,            \* every standard window so far, with its outcome
    cal_seen,           \* every calibration candidate the for loop has finished
    files,              \* every Dataset(..., "w") so far, in order of creation
    yielded             \* every item handed to the caller so far, in order

vars == << repo, interval, should_round, calibration, start_time, end_time,
           measurement_start, measurement_end, interval_start, interval_end,
           pf, cal_index, pc, raised, requests, windows, cal_seen, files,
           yielded >>

(***************************************************************************)
(* datetime arithmetic                                                     *)
(***************************************************************************)
HMS(h, m, s) == h * 3600 + m * 60 + s

DateOf(t) == t \div 86400

HourOf(t) == (t % 86400) \div 3600

MinuteOf(t) == (t % 3600) \div 60

SecondOf(t) == t % 60

TimeOfDay(t) == t % 86400

\* datetime.replace(hour=h, minute=m): date, second (and microsecond) are kept
ReplaceHourMinute(t, h, m) == DateOf(t) * 86400 + HMS(h, m, SecondOf(t))

\* datetime.replace(microsecond=0, second=0, minute=0)
RoundDownHour(t) == DateOf(t) * 86400 + HMS(HourOf(t), 0, 0)

Min(a, b) == IF a < b THEN a ELSE b

Max(a, b) == IF a < b THEN b ELSE a

NoTime == [kind |-> "none", val |-> 0]

\* "HH:MM" given on the command line
HourMinuteOption(h, m) == [kind |-> "hm", val |-> HMS(h, m, 0)]

\* "YYYY-MM-DD_HH:MM" given on the command line
FullDateOption(t) == [kind |-> "full", val |-> t]

\* utils.date_option_to_datetime(day, option): an HH:MM option is taken on the
\* date of `day`, a full option is the datetime it names
date_option_to_datetime(day, option) ==
    IF option.kind = "hm" THEN DateOf(day) * 86400 + option.val ELSE option.val

(***************************************************************************)
(* The collaborators: PollyXTRepository / PollyXTFile (pollyxt.py) and     *)
(* Location (locations.py).  A repository is a recording session           *)
(* [start, end) holding one profile every ProfileStep seconds from start,  *)
(* except inside [gap[1], gap[2]), where the instrument recorded nothing;  *)
(* fail_at numbers the get_pollyxt_file call at which the backing file     *)
(* cannot be read (0: every call reads).                                   *)
(***************************************************************************)
ProfileStep == 30

CeilDiv(a, b) == (a + b - 1) \div b

\* the timestamps of the profiles of r that fall in [start, end)
ProfilesIn(r, start, end) ==
    LET lo == Max(start, r.start)
        hi == Min(end, r.end)
    IN  IF lo >= hi THEN {}
        ELSE { t \in { r.start + ProfileStep * k :
                         k \in CeilDiv(lo - r.start, ProfileStep) ..
                               (CeilDiv(hi - r.start, ProfileStep) - 1) } :
                 ~(r.gap[1] <= t /\ t < r.gap[2]) }

SetMin(S) == CHOOSE x \in S : \A y \in S : x <= y

SetMax(S) == CHOOSE x \in S : \A y \in S : y <= x

\* repo.get_time_period()
get_time_period(r) == << r.start, r.end >>

\* repo.get_pollyxt_file(start, end) as call number `call` on r: the subset of
\* the profiles in [start, end), or the exception raised instead
get_pollyxt_file(r, call, start, end) ==
    LET P == ProfilesIn(r, start, end)
    IN  IF call = r.fail_at
        THEN [exc |-> "OSError", pf |-> [start_date |-> 0, end_date |-> 0,
                                         n |-> 0, lo |-> start, hi |-> end]]
        ELSE IF P = {}
        THEN [exc |-> "NoMeasurementsInTimePeriod",
              pf |-> [start_date |-> 0, end_date |-> 0,
                      n |-> 0, lo |-> start, hi |-> end]]
        ELSE [exc |-> "none",
              pf |-> [start_date |-> SetMin(P), end_date |-> SetMax(P),
                      n |-> Cardinality(P), lo |-> start, hi |-> end]]

\* the instrument's daily calibration times, on the date of the session start
get_calibration_periods(r) ==
    LET d == DateOf(r.start) * 86400
    IN  << << d + HMS(2, 31, 0),  d + HMS(2, 41, 0) >>,
           << d + HMS(17, 31, 0), d + HMS(17, 41, 0) >>,
           << d + HMS(21, 31, 0), d + HMS(21, 41, 0) >> >>

\* the timestamp of profile number i (from 0) of subset p
ProfileTime(r, p, i) ==
    LET P == ProfilesIn(r, p.lo, p.hi)
    IN  CHOOSE t \in P : Cardinality({ u \in P : u < t }) = i

\* the timestamps of the profiles of r in [start, end), in recording order
ProfileSeq(r, start, end) ==
    LET lo == Max(start, r.start)
        hi == Min(end, r.end)
        k0 == CeilDiv(lo - r.start, ProfileStep)
        k1 == CeilDiv(hi - r.start, ProfileStep) - 1
        Recorded(t) == ~(r.gap[1] <= t /\ t < r.gap[2])
    IN  IF lo >= hi THEN << >>
        ELSE SelectSeq([ j \in 1..(k1 - k0 + 1) |->
                           r.start + ProfileStep * (k0 + j - 1) ], Recorded)

\* pf.measurement_time[i, 1]: the raw clock of profile i (from 0) of subset
\* p, the seconds of its day
measurement_time(r, p, i) == TimeOfDay(ProfileSeq(r, p.lo, p.hi)[i + 1])

\* pf.calibration_mask at a profile recorded at t: set while the instrument
\* is in one of its calibration periods
calibration_mask(r, t) ==
    LET periods == get_calibration_periods(r)
    IN  \E c \in 1..Len(periods) : periods[c][1] <= t /\ t < periods[c][2]

\* pf.raw_signal_swap[i, channel, :]: the range-bin vector recorded at profile
\* i of the subset on raw channel `channel`, named by where it was recorded
raw_signal_swap(r, p, i, channel) == << ProfileTime(r, p, i), channel >>

\* the station
location ==
    [ total_channel_355_nm |-> 0, cross_channel_355_nm |-> 1,
      total_channel_532_nm |-> 4, cross_channel_532_nm |-> 5,
      daytime_configuration |-> "daytime",
      nighttime_configuration |-> "nighttime",
      calibration_configuration_355nm |-> "calibration_355",
      calibration_configuration_532nm |-> "calibration_532" ]

NM_355 == 355

NM_532 == 532

(***************************************************************************)
(* create_scc_netcdf                                                       *)
(***************************************************************************)
\* strftime("%H") / strftime("%M"): two digits each
TwoDigits(n) == << n \div 10, n % 10 >>

\* pf.start_date.strftime(f"%Y%m%d{location.scc_code}%H%M"): the date and
\* station code are one fixed-width field, then the four digits HHMM
StandardMeasurementId(start_date) ==
    << DateOf(start_date) >> \o TwoDigits(HourOf(start_date))
                             \o TwoDigits(MinuteOf(start_date))

\* "From 04:00 until 16:00 we use daytime configuration"
IsDaytime(start_date) ==
    /\ ReplaceHourMinute(start_date, 4, 0) < start_date
    /\ start_date < ReplaceHourMinute(start_date, 16, 0)

NoCycles == << >>

\* the profiles of subset p kept by [~pf.calibration_mask], by timestamp
Unmasked(r, p) ==
    LET Kept(t) == ~calibration_mask(r, t)
    IN  SelectSeq(ProfileSeq(r, p.lo, p.hi), Kept)

\* the clock subtracted from every kept profile's clock
RawClockOrigin_FirstUnmasked(r, p) == TimeOfDay(Unmasked(r, p)[1])

RawClockOrigin(r, p) == measurement_time(r, p, 0)

create_scc_netcdf(r, p) ==
    LET measurement_id == StandardMeasurementId(p.start_date)
        kept == Unmasked(r, p)
        origin == RawClockOrigin(r, p)
        raw_data_start_time ==
            [ j \in 1..Len(kept) |-> TimeOfDay(kept[j]) - origin ]
    IN  [ returned_id |-> measurement_id,
          file |-> [ kind |-> "standard",
                     name |-> << "", measurement_id, 0 >>,
                     Measurement_ID |-> measurement_id,
                     RawData_Start |-> p.start_date,
                     RawData_Stop |-> p.end_date,
                     Configuration_ID |->
                         IF IsDaytime(p.start_date)
                         THEN location.daytime_configuration
                         ELSE location.nighttime_configuration,
                     Raw_Data_Start_Time |-> raw_data_start_time,
                     Raw_Data_Stop_Time |->
                         [ j \in 1..Len(kept) |-> raw_data_start_time[j] + 30 ],
                     Raw_Lidar_Data |-> kept,
                     cycles |-> NoCycles,
                     closed |-> TRUE ],
          exc |-> "none" ]

(***************************************************************************)
(* create_scc_calibration_netcdf                                           *)
(***************************************************************************)
start_first_measurement == 0

stop_first_measurement == 12

\* pf.start_date.strftime(f"%Y%m%d{location.scc_code}%H")
CalibrationMeasurementId(start_date) ==
    << DateOf(start_date) >> \o TwoDigits(HourOf(start_date))

\* nc.Measurement_ID = measurement_id + "35" / + "53"
WavelengthSuffix(wavelength) ==
    IF wavelength = NM_355 THEN << 3, 5 >> ELSE << 5, 3 >>

\* numpy indexing of axis 0 of an array of n profiles with a non-negative i
IndexInBounds(p, i) == i < p.n

\* a cycle that reads the total channel before the cross channel
CalibrationCycle_TotalFirst(r, p, meas_cycle, cross_channel, total_channel) ==
    LET reads == << << start_first_measurement + meas_cycle, total_channel >>,
                    << start_first_measurement + meas_cycle, cross_channel >>,
                    << stop_first_measurement + meas_cycle, total_channel >>,
                    << stop_first_measurement + meas_cycle, cross_channel >> >>
        good == { k \in 0..4 : \A j \in 1..k : IndexInBounds(p, reads[j][1]) }
        done == SetMax(good)
    IN  [ Raw_Data_Start_Time |-> start_first_measurement + meas_cycle,
          Raw_Data_Stop_Time |-> stop_first_measurement + meas_cycle,
          Raw_Lidar_Data |->
              [ j \in 1..done |->
                  raw_signal_swap(r, p, reads[j][1], reads[j][2]) ],
          complete |-> (done = 4) ]

\* one pass of "for meas_cycle in range(0, 3, 1)": the two offsets are written,
\* then the four channels in order; the first index out of bounds raises
\* IndexError and leaves what was written before it
CalibrationCycle(r, p, meas_cycle, cross_channel, total_channel) ==
    LET reads == << << start_first_measurement + meas_cycle, cross_channel >>,
                    << start_first_measurement + meas_cycle, total_channel >>,
                    << stop_first_measurement + meas_cycle, cross_channel >>,
                    << stop_first_measurement + meas_cycle, total_channel >> >>
        good == { k \in 0..4 : \A j \in 1..k : IndexInBounds(p, reads[j][1]) }
        done == SetMax(good)
    IN  [ Raw_Data_Start_Time |-> start_first_measurement + meas_cycle,
          Raw_Data_Stop_Time |-> stop_first_measurement + meas_cycle,
          Raw_Lidar_Data |->
              [ j \in 1..done |->
                  raw_signal_swap(r, p, reads[j][1], reads[j][2]) ],
          complete |-> (done = 4) ]

\* an index past the end of raw_signal_swap raises IndexError out of the build
RaisedByReads_Silent(ok) == "none"

RaisedByReads(ok) == IF ok THEN "none" ELSE "IndexError"

create_scc_calibration_netcdf(r, p, wavelength) ==
    LET measurement_id == CalibrationMeasurementId(p.start_date)
        total_channel == IF wavelength = NM_355
                         THEN location.total_channel_355_nm
                         ELSE location.total_channel_532_nm
        cross_channel == IF wavelength = NM_355
                         THEN location.cross_channel_355_nm
                         ELSE location.cross_channel_532_nm
        c0 == CalibrationCycle(r, p, 0, cross_channel, total_channel)
        c1 == CalibrationCycle(r, p, 1, cross_channel, total_channel)
        c2 == CalibrationCycle(r, p, 2, cross_channel, total_channel)
        cycles == IF ~c0.complete THEN << c0 >>
                  ELSE IF ~c1.complete THEN << c0, c1 >>
                  ELSE << c0, c1, c2 >>
        ok == c0.complete /\ c1.complete /\ c2.complete
    IN  [ returned_id |-> measurement_id,
          file |-> [ kind |-> "calibration",
                     name |-> << "calibration", measurement_id, wavelength >>,
                     Measurement_ID |->
                         measurement_id \o WavelengthSuffix(wavelength),
                     RawData_Start |-> p.start_date,
                     RawData_Stop |-> p.end_date,
                     Configuration_ID |->
                         IF wavelength = NM_355
                         THEN location.calibration_configuration_355nm
                         ELSE location.calibration_configuration_532nm,
                     cycles |-> cycles,
                     closed |-> ok ],
          exc |-> RaisedByReads(ok) ]

(***************************************************************************)
(* convert_pollyxt_file: the generator.  pc names the place where it       *)
(* stands: "start" (created, not yet run), "loop" (head of the while       *)
(* loop), "yield_standard" (suspended at the yield of a standard file),    *)
(* "calibration" (head of the for loop), "yield_532" / "yield_355"         *)
(* (suspended at a calibration yield), "done" (returned), "raised" (an     *)
(* exception left the generator).                                          *)
(***************************************************************************)
MaxWindows == 6

MaxFailAt == 2

Sessions ==
    { << HMS(0, 0, 0),   HMS(3, 0, 0) >>,
      << HMS(2, 31, 0),  HMS(5, 0, 0) >>,
      << HMS(1, 0, 0),   HMS(2, 41, 0) >>,
      << HMS(3, 30, 30), HMS(5, 0, 0) >>,
      << HMS(10, 0, 0),  HMS(11, 30, 0) >>,
      << HMS(15, 30, 0), HMS(17, 45, 0) >>,
      << HMS(17, 0, 0),  HMS(22, 0, 0) >> }

Gaps ==
    { << 0, 0 >>,
      << HMS(1, 0, 0),   HMS(2, 0, 30) >>,
      << HMS(2, 33, 30), HMS(2, 41, 0) >>,
      << HMS(2, 37, 30), HMS(2, 41, 0) >>,
      << HMS(2, 38, 0),  HMS(2, 41, 0) >>,
      << HMS(2, 38, 30), HMS(2, 41, 0) >>,
      << HMS(2, 31, 0),  HMS(2, 41, 0) >> }

\* a gap is a stretch of its session
GapsOf(s) == { g \in Gaps : g = << 0, 0 >> \/ (s[1] <= g[1] /\ g[2] <= s[2]) }

Repos ==
    UNION { { [start |-> s[1], end |-> s[2], gap |-> g, fail_at |-> f] :
                g \in GapsOf(s), f \in 0..MaxFailAt } : s \in Sessions }

Intervals == { HMS(0, 0, 20), HMS(0, 30, 0), HMS(1, 0, 0), HMS(1, 30, 0) }

StartOptions ==
    { NoTime, HourMinuteOption(1, 30), HourMinuteOption(2, 35),
      HourMinuteOption(3, 0), HourMinuteOption(23, 0),
      FullDateOption(HMS(16, 0, 0)) }

EndOptions ==
    { NoTime, HourMinuteOption(1, 30), HourMinuteOption(2, 40),
      HourMinuteOption(4, 30), HourMinuteOption(8, 0) }

NoSubset == [start_date |-> 0, end_date |-> 0, n |-> 0, lo |-> 0, hi |-> 0]

Init ==
    /\ repo \in Repos
    /\ interval \in Intervals
    /\ should_round \in BOOLEAN
    /\ calibration \in BOOLEAN
    /\ start_time \in StartOptions
    /\ end_time \in EndOptions
    /\ measurement_start = 0
    /\ measurement_end = 0
    /\ interval_start = 0
    /\ interval_end = 0
    /\ pf = NoSubset
    /\ cal_index = 1
    /\ pc = "start"
    /\ raised = "none"
    /\ requests = << >>
    /\ windows = << >>
    /\ cal_seen = << >>
    /\ files = << >>
    /\ yielded = << >>

Resolved(t) == [kind |-> "dt", val |-> t]

\* a check of the lower bound alone
StartTimeOutside_LowerOnly(m_start, m_end, st) == st < m_start

\* if start_time < measurement_start or measurement_end < start_time
StartTimeOutside(m_start, m_end, st) == st < m_start \/ m_end < st

\* if start_time is None and end_time is not None
EndWithoutStart(st, et) == st = NoTime /\ et # NoTime

\* if end_time < measurement_start or measurement_end < start_time
EndTimeOutside(m_start, m_end, st, et) == et < m_start \/ m_end < st

\* interval = timedelta(seconds=(end_time - start_time).total_seconds())
ExplicitInterval(st, et) == et - st

\* the code from the top of the function to the head of the while loop
ResolveTimes ==
    /\ pc = "start"
    /\ LET period == get_time_period(repo)
           has_start == start_time # NoTime
           has_end == end_time # NoTime
           st == IF has_start
                 THEN date_option_to_datetime(period[1], start_time) ELSE 0
           bad_start == has_start /\ StartTimeOutside(period[1], period[2], st)
           m_start == IF has_start /\ ~bad_start THEN st ELSE period[1]
           no_start == ~bad_start /\ EndWithoutStart(start_time, end_time)
           at_end == has_end /\ ~bad_start /\ ~no_start
           et == IF has_end
                 THEN date_option_to_datetime(period[2], end_time) ELSE 0
           bad_end == at_end /\ EndTimeOutside(m_start, period[2], st, et)
           exc == IF bad_start \/ bad_end THEN "TimeOutsideFile"
                  ELSE IF no_start THEN "ValueError" ELSE "none"
           m_end == IF at_end /\ ~bad_end THEN et ELSE period[2]
       IN  /\ start_time' = IF has_start THEN Resolved(st) ELSE NoTime
           /\ end_time' = IF at_end THEN Resolved(et) ELSE end_time
           /\ measurement_start' = m_start
           /\ measurement_end' = m_end
           /\ interval' = IF at_end /\ ~bad_end
                          THEN ExplicitInterval(st, et) ELSE interval
           /\ interval_start' = IF exc = "none" THEN m_start ELSE 0
           /\ raised' = exc
           /\ pc' = IF exc = "none" THEN "loop" ELSE "raised"
    /\ UNCHANGED << repo, should_round, calibration, interval_end, pf,
                    cal_index, requests, windows, cal_seen, files, yielded >>

\* if should_round: interval_start = interval_start.replace(...)
WindowStart(cursor, round) ==
    IF round THEN RoundDownHour(cursor) ELSE cursor

\* interval_end = interval_start + interval
WindowEnd(w_start, length) == w_start + length

\* repo.get_pollyxt_file(interval_start, interval_end + timedelta(seconds=30))
GuardedEnd_OneMinute(w_end) == w_end + 60

GuardedEnd(w_end) == w_end + 30

\* a bare except
Caught_Everything(exc) == TRUE

\* except NoMeasurementsInTimePeriod
Caught(exc) == exc = "NoMeasurementsInTimePeriod"

\* a cursor that resumes where the guarded request ended
NextIntervalStart_AfterGuard(w_end) == GuardedEnd(w_end)

\* interval_start = interval_end
NextIntervalStart(w_end) == w_end

\* one pass of the while loop, up to its yield, its continue or its exception
StandardWindow ==
    /\ pc = "loop"
    /\ interval_start < measurement_end
    /\ Len(windows) < MaxWindows
    /\ LET w_start == WindowStart(interval_start, should_round)
           w_end == WindowEnd(w_start, interval)
           call == Len(requests) + 1
           got == get_pollyxt_file(repo, call, w_start, GuardedEnd(w_end))
           built == create_scc_netcdf(repo, got.pf)
           window == [start |-> w_start, end |-> w_end, request |-> call]
       IN  /\ requests' = Append(requests,
                  [start |-> w_start, end |-> GuardedEnd(w_end),
                   phase |-> "standard", exc |-> got.exc])
           /\ interval_end' = w_end
           /\ IF got.exc = "none"
              THEN /\ pf' = got.pf
                   /\ files' = Append(files, built.file)
                   /\ yielded' = Append(yielded,
                          [id |-> built.returned_id, path |-> built.file.name,
                           start |-> got.pf.start_date,
                           end |-> got.pf.end_date,
                           file |-> Len(files) + 1, request |-> call])
                   /\ windows' = Append(windows,
                          [start |-> w_start, end |-> w_end,
                           request |-> call, outcome |-> "file"])
                   /\ interval_start' = w_start
                   /\ pc' = "yield_standard"
                   /\ UNCHANGED raised
              ELSE IF Caught(got.exc)
              THEN /\ windows' = Append(windows,
                          [start |-> w_start, end |-> w_end,
                           request |-> call, outcome |-> "empty"])
                   /\ interval_start' = NextIntervalStart(w_end)
                   /\ pc' = "loop"
                   /\ UNCHANGED << pf, files, yielded, raised >>
              ELSE /\ windows' = Append(windows,
                          [start |-> w_start, end |-> w_end,
                           request |-> call, outcome |-> "raised"])
                   /\ interval_start' = w_start
                   /\ raised' = got.exc
                   /\ pc' = "raised"
                   /\ UNCHANGED << pf, files, yielded >>
    /\ UNCHANGED << repo, interval, should_round, calibration, start_time,
                    end_time, measurement_start, measurement_end, cal_index,
                    cal_seen >>

\* the caller asks for the next item after a standard file
ResumeStandard ==
    /\ pc = "yield_standard"
    /\ interval_start' = NextIntervalStart(interval_end)
    /\ pc' = "loop"
    /\ UNCHANGED << repo, interval, should_round, calibration, start_time,
                    end_time, measurement_start, measurement_end,
                    interval_end, pf, cal_index, raised, requests, windows,
                    cal_seen, files, yielded >>

\* the while condition is false: if calibration: for ... in
\* repo.get_calibration_periods()
StandardDone ==
    /\ pc = "loop"
    /\ ~(interval_start < measurement_end)
    /\ pc' = IF calibration THEN "calibration" ELSE "done"
    /\ cal_index' = 1
    /\ UNCHANGED << repo, interval, should_round, calibration, start_time,
                    end_time, measurement_start, measurement_end,
                    interval_start, interval_end, pf, raised, requests,
                    windows, cal_seen, files, yielded >>

\* a filter that keeps the windows touching a boundary
Retained_Touching(start, end, m_start, m_end) ==
    start >= m_start /\ end <= m_end

\* if start > measurement_start and end < measurement_end
Retained(start, end, m_start, m_end) == start > m_start /\ end < m_end

\* the 355 nm file built first
FirstWavelength_355 == NM_355

\* wavelength=Wavelength.NM_532 in the first call, NM_355 in the second
FirstWavelength == NM_532

SecondWavelength == NM_355

\* one candidate of the for loop, up to the yield of its 532 nm file
CalibrationWindow ==
    /\ pc = "calibration"
    /\ cal_index <= Len(get_calibration_periods(repo))
    /\ LET start == get_calibration_periods(repo)[cal_index][1]
           end == get_calibration_periods(repo)[cal_index][2]
           call == Len(requests) + 1
           got == get_pollyxt_file(repo, call, start, end)
           built == create_scc_calibration_netcdf(repo, got.pf, FirstWavelength)
       IN  IF ~Retained(start, end, measurement_start, measurement_end)
           THEN /\ cal_seen' = Append(cal_seen,
                       [start |-> start, end |-> end, request |-> 0,
                        items |-> << >>])
                /\ cal_index' = cal_index + 1
                /\ UNCHANGED << pc, pf, raised, requests, files, yielded >>
           ELSE /\ requests' = Append(requests,
                       [start |-> start, end |-> end,
                        phase |-> "calibration", exc |-> got.exc])
                /\ UNCHANGED << cal_seen, cal_index >>
                /\ IF got.exc # "none"
                   THEN /\ raised' = got.exc
                        /\ pc' = "raised"
                        /\ UNCHANGED << pf, files, yielded >>
                   ELSE /\ pf' = got.pf
                        /\ files' = Append(files, built.file)
                        /\ IF built.exc = "none"
                           THEN /\ yielded' = Append(yielded,
                                       [id |-> built.returned_id,
                                        path |-> built.file.name,
                                        start |-> start, end |-> end,
                                        file |-> Len(files) + 1,
                                        request |-> call])
                                /\ pc' = "yield_532"
                                /\ UNCHANGED raised
                           ELSE /\ raised' = built.exc
                                /\ pc' = "raised"
                                /\ UNCHANGED yielded
    /\ UNCHANGED << repo, interval, should_round, calibration, start_time,
                    end_time, measurement_start, measurement_end,
                    interval_start, interval_end, windows >>

\* the caller asks for the next item after a 532 nm file: the 355 nm file is
\* built from the same pf and yielded
Resume532 ==
    /\ pc = "yield_532"
    /\ LET start == get_calibration_periods(repo)[cal_index][1]
           end == get_calibration_periods(repo)[cal_index][2]
           built == create_scc_calibration_netcdf(repo, pf, SecondWavelength)
       IN  /\ files' = Append(files, built.file)
           /\ IF built.exc = "none"
              THEN /\ yielded' = Append(yielded,
                          [id |-> built.returned_id,
                           path |-> built.file.name,
                           start |-> start, end |-> end,
                           file |-> Len(files) + 1,
                           request |-> Len(requests)])
                   /\ pc' = "yield_355"
                   /\ UNCHANGED raised
              ELSE /\ raised' = built.exc
                   /\ pc' = "raised"
                   /\ UNCHANGED yielded
    /\ UNCHANGED << repo, interval, should_round, calibration, start_time,
                    end_time, measurement_start, measurement_end,
                    interval_start, interval_end, pf, cal_index, requests,
                    windows, cal_seen >>

\* the caller asks for the next item after a 355 nm file
Resume355 ==
    /\ pc = "yield_355"
    /\ cal_seen' = Append(cal_seen,
           [start |-> get_calibration_periods(repo)[cal_index][1],
            end |-> get_calibration_periods(repo)[cal_index][2],
            request |-> Len(requests),
            items |-> << Len(yielded) - 1, Len(yielded) >>])
    /\ cal_index' = cal_index + 1
    /\ pc' = "calibration"
    /\ UNCHANGED << repo, interval, should_round, calibration, start_time,
                    end_time, measurement_start, measurement_end,
                    interval_start, interval_end, pf, raised, requests,
                    windows, files, yielded >>

\* the for loop is exhausted: the generator returns
CalibrationDone ==
    /\ pc = "calibration"
    /\ cal_index > Len(get_calibration_periods(repo))
    /\ pc' = "done"
    /\ UNCHANGED << repo, interval, should_round, calibration, start_time,
                    end_time, measurement_start, measurement_end,
                    interval_start, interval_end, pf, cal_index, raised,
                    requests, windows, cal_seen, files, yielded >>

Next ==
    \/ ResolveTimes
    \/ StandardWindow
    \/ ResumeStandard
    \/ StandardDone
    \/ CalibrationWindow
    \/ Resume532
    \/ Resume355
    \/ CalibrationDone

Spec == Init /\ [][Next]_vars

(***************************************************************************)
(* What the claims speak of                                                *)
(***************************************************************************)
Items == 1..Len(yielded)

FileOf(i) == files[yielded[i].file]

StandardItems == { i \in Items : FileOf(i).kind = "standard" }

CalibrationItems == { i \in Items : FileOf(i).kind = "calibration" }

\* the wavelength a calibration file was built for (it is part of its name)
WavelengthOf(i) == FileOf(i).name[3]

\* the standard window whose subset request produced item i
WindowOf(i) == CHOOSE k \in 1..Len(windows) : windows[k].request = yielded[i].request

\* the while loop has been left
PastStandard ==
    \/ pc \in { "calibration", "yield_532", "yield_355", "done" }
    \/ /\ pc = "raised"
       /\ requests # << >>
       /\ requests[Len(requests)].phase = "calibration"

\* ResolveTimes has run and raised nothing
TimesResolved == pc # "start" /\ raised \notin { "TimeOutsideFile", "ValueError" }

\* both start_time and end_time were given and passed validation
ExplicitRange ==
    TimesResolved /\ start_time.kind = "dt" /\ end_time.kind = "dt"

(***************************************************************************)
(* C1: with start_time and end_time both given and valid, the standard     *)
(* phase produces one standard file only, and that file is the file of     *)
(* the window [start_time, end_time): never a second standard file, never  *)
(* a file of another window, and one file once the while loop is left.     *)
(***************************************************************************)
C1_ExplicitRangeOneFile ==
    ExplicitRange =>
        /\ Cardinality(StandardItems) <= 1
        /\ \A i \in StandardItems :
               /\ windows[WindowOf(i)].start = start_time.val
               /\ windows[WindowOf(i)].end = end_time.val
        /\ (PastStandard /\ start_time.val < end_time.val /\
            \A k \in 1..Len(windows) : windows[k].outcome # "empty")
               => Cardinality(StandardItems) = 1

\* a run with should_round left false, once the times are resolved
UnroundedRun == TimesResolved /\ ~should_round

(***************************************************************************)
(* C2: with should_round false and a positive interval the standard        *)
(* windows are contiguous: the first starts at the effective start, each   *)
(* later one starts at the end (start + interval) of the one before it,    *)
(* whether that one gave a file or not, the cursor waits at the end of     *)
(* the last window, and once the while loop is left the windows cover      *)
(* [effective start, effective end).                                       *)
(***************************************************************************)
C2_WindowsContiguous ==
    (UnroundedRun /\ interval > 0) =>
        /\ windows # << >> => windows[1].start = measurement_start
        /\ \A k \in 1..Len(windows) :
               /\ windows[k].end = windows[k].start + interval
               /\ k > 1 => windows[k].start = windows[k - 1].end
        /\ (pc = "loop" /\ windows # << >>)
               => interval_start = windows[Len(windows)].end
        /\ (PastStandard /\ measurement_start < measurement_end)
               => /\ windows # << >>
                  /\ windows[Len(windows)].end >= measurement_end

C2_Witness ==
    /\ UnroundedRun
    /\ PastStandard
    /\ Len(windows) >= 3
    /\ \E k \in 2..Len(windows) :
           windows[k - 1].outcome = "empty" /\ windows[k].outcome = "file"

\* the span the run works on: the session of get_time_period(), its start
\* replaced by start_time and its end by end_time where these are given
EffectiveStart ==
    IF start_time.kind = "dt" THEN start_time.val ELSE get_time_period(repo)[1]

EffectiveEnd ==
    IF end_time.kind = "dt" THEN end_time.val ELSE get_time_period(repo)[2]

\* candidate k of the for loop gave its two calibration files
Produced(k) == cal_seen[k].items # << >>

(***************************************************************************)
(* C3 as stated: every candidate window the for loop has finished gave     *)
(* calibration files iff it lies strictly inside the session span of       *)
(* repo.get_time_period(), whatever start_time / end_time are.             *)
(***************************************************************************)
C3_RetainedIffInsideSession ==
    \A k \in 1..Len(cal_seen) :
        Produced(k) <=> /\ cal_seen[k].start > get_time_period(repo)[1]
                        /\ cal_seen[k].end < get_time_period(repo)[2]

(***************************************************************************)
(* C3 amended: every candidate window the for loop has finished gave       *)
(* calibration files iff it lies strictly inside the effective span, and   *)
(* the candidates are finished in the order the repository returns them.   *)
(***************************************************************************)
C3_RetainedIffInsideEffectiveSpan ==
    /\ Len(cal_seen) <= Len(get_calibration_periods(repo))
    /\ \A k \in 1..Len(cal_seen) :
           /\ cal_seen[k].start = get_calibration_periods(repo)[k][1]
           /\ cal_seen[k].end = get_calibration_periods(repo)[k][2]
           /\ Produced(k) <=> /\ cal_seen[k].start > EffectiveStart
                              /\ cal_seen[k].end < EffectiveEnd
    /\ pc = "done" => (calibration <=> cal_seen # << >>)

C3_Witness ==
    /\ pc = "done"
    /\ start_time.kind = "dt"
    /\ end_time.kind = "dt"
    /\ \E k \in 1..Len(cal_seen) : Produced(k)
    /\ \E k \in 1..Len(cal_seen) : ~Produced(k)

\* the place of a calibration window in repo.get_calibration_periods()
PeriodIndex(start, end) ==
    CHOOSE k \in 1..Len(get_calibration_periods(repo)) :
        get_calibration_periods(repo)[k] = << start, end >>

C5_UniqueMeasurementIds ==
    \A i \in Items : \A j \in Items : i # j => yielded[i].id # yielded[j].id

\* nothing has been asked of the repository, written or handed out
NothingProduced == requests = << >> /\ files = << >> /\ yielded = << >>

\* t lies outside [session_start, session_end], the bounds included
OutsideSession(t) ==
    t < get_time_period(repo)[1] \/ get_time_period(repo)[2] < t

(***************************************************************************)
(* C6: a start_time outside [session_start, session_end] ends the run      *)
(* with TimeOutsideFile, an end_time without start_time ends it with       *)
(* ValueError, and in both cases nothing was requested, written or         *)
(* yielded before.                                                         *)
(***************************************************************************)
C6_BadStartRejected ==
    pc # "start" =>
        /\ (start_time.kind = "dt" /\ OutsideSession(start_time.val))
               => /\ pc = "raised"
                  /\ raised = "TimeOutsideFile"
                  /\ NothingProduced
        /\ (start_time = NoTime /\ end_time # NoTime)
               => /\ pc = "raised"
                  /\ raised = "ValueError"
                  /\ NothingProduced
        /\ raised \in { "TimeOutsideFile", "ValueError" } => NothingProduced

C6_Witness ==
    /\ pc = "raised"
    /\ raised = "TimeOutsideFile"
    /\ start_time.kind = "dt"
    /\ get_time_period(repo)[2] < start_time.val
    /\ end_time # NoTime

(***************************************************************************)
(* C7: an end_time (given with a valid start_time) outside                 *)
(* [session_start, session_end] ends the run with TimeOutsideFile before   *)
(* anything is produced; in particular an end_time after session_end.      *)
(***************************************************************************)
C7_BadEndRejected ==
    (/\ pc # "start"
     /\ start_time.kind = "dt"
     /\ ~OutsideSession(start_time.val)
     /\ end_time.kind = "dt"
     /\ OutsideSession(end_time.val))
        => /\ pc = "raised"
           /\ raised = "TimeOutsideFile"
           /\ NothingProduced

\* request number r of the run raised exception e into the generator
RequestRaised(r, e) == requests[r].exc = e

\* the exception of request r left the generator: the run ended there
Propagated(r) ==
    /\ r = Len(requests)
    /\ pc = "raised"
    /\ raised = requests[r].exc
    /\ \A i \in Items : yielded[i].request # r

\* the standard window k was skipped: no file, no exception, and the loop
\* went on from the end of the window
Skipped(k) ==
    /\ windows[k].outcome = "empty"
    /\ \A i \in Items : yielded[i].request # windows[k].request
    /\ k = Len(windows) =>
           /\ pc \in { "loop", "calibration", "yield_532", "yield_355", "done" }
              \/ (pc = "raised" /\ requests[Len(requests)].phase = "calibration")
           /\ pc = "loop" => interval_start = windows[k].end
    /\ k < Len(windows) => windows[k + 1].request = windows[k].request + 1

(***************************************************************************)
(* C8 as stated: NoMeasurementsInTimePeriod of any get_pollyxt_file        *)
(* request never reaches the caller (the window gives no file and the      *)
(* iteration goes on), every other failure does.                           *)
(***************************************************************************)
C8_NoMeasurementsNeverRaised ==
    /\ raised # "NoMeasurementsInTimePeriod"
    /\ \A r \in 1..Len(requests) :
           /\ RequestRaised(r, "NoMeasurementsInTimePeriod")
                  => \A i \in Items : yielded[i].request # r
           /\ requests[r].exc \notin { "none", "NoMeasurementsInTimePeriod" }
                  => Propagated(r)

(***************************************************************************)
(* C8 amended: NoMeasurementsInTimePeriod of a standard-window request     *)
(* never reaches the caller: the window gives no file and the loop goes on *)
(* with the next window.  Every other failure reaches the caller: any      *)
(* other exception of a standard-window request, every exception of a      *)
(* calibration-window request (NoMeasurementsInTimePeriod too), and the    *)
(* IndexError of a calibration build.                                      *)
(***************************************************************************)
C8_OnlyStandardWindowsSkip ==
    /\ \A k \in 1..Len(windows) :
           RequestRaised(windows[k].request, "NoMeasurementsInTimePeriod")
               <=> Skipped(k)
    /\ \A r \in 1..Len(requests) :
           /\ requests[r].exc \notin { "none", "NoMeasurementsInTimePeriod" }
                  => Propagated(r)
           /\ (requests[r].phase = "calibration" /\ requests[r].exc # "none")
                  => Propagated(r)
    /\ \A f \in 1..Len(files) :
           ~files[f].closed
               => /\ f = Len(files)
                  /\ pc = "raised"
                  /\ raised = "IndexError"
    /\ pc = "raised" <=> raised # "none"

C8_Witness ==
    /\ pc = "done"
    /\ calibration
    /\ \E k \in 1..Len(windows) : Skipped(k) /\ k < Len(windows)
    /\ CalibrationItems # {}

(***************************************************************************)
(* C9: a standard file carries the daytime configuration iff the start     *)
(* timestamp t of its subset satisfies 04:00:00 < t < 16:00:00 on its      *)
(* date, seconds included, and the nighttime configuration otherwise.      *)
(***************************************************************************)
C9_DaytimeIffBetween4And16 ==
    \A f \in 1..Len(files) :
        files[f].kind = "standard" =>
            LET t == TimeOfDay(files[f].RawData_Start)
            IN  /\ files[f].Configuration_ID \in
                       { location.daytime_configuration,
                         location.nighttime_configuration }
                /\ files[f].Configuration_ID = location.daytime_configuration
                       <=> (HMS(4, 0, 0) < t /\ t < HMS(16, 0, 0))

\* the calibration file written last and the subset it was built from
LastFile == files[Len(files)]

CalibrationBuilt ==
    /\ files # << >>
    /\ LastFile.kind = "calibration"
    /\ pc \in { "yield_532", "yield_355" } \/ (pc = "raised" /\ raised = "IndexError")

\* the raw channels of the wavelength of file f: << cross, total >>
ChannelsOf(f) ==
    IF f.name[3] = NM_355
    THEN << location.cross_channel_355_nm, location.total_channel_355_nm >>
    ELSE << location.cross_channel_532_nm, location.total_channel_532_nm >>

\* file f holds the three cycles of subset p: offsets c and 12 + c, channels
\* cross@c, total@c, cross@(12+c), total@(12+c) as recorded
CyclesCopied(f, p) ==
    /\ f.closed
    /\ Len(f.cycles) = 3
    /\ \A c \in 0..2 :
           /\ f.cycles[c + 1].Raw_Data_Start_Time = c
           /\ f.cycles[c + 1].Raw_Data_Stop_Time = 12 + c
           /\ f.cycles[c + 1].Raw_Lidar_Data =
                  << << ProfileTime(repo, p, c), ChannelsOf(f)[1] >>,
                     << ProfileTime(repo, p, c), ChannelsOf(f)[2] >>,
                     << ProfileTime(repo, p, 12 + c), ChannelsOf(f)[1] >>,
                     << ProfileTime(repo, p, 12 + c), ChannelsOf(f)[2] >> >>

(***************************************************************************)
(* C10 as stated: for a subset of at least 13 profiles the calibration     *)
(* build ends without error and the file holds, for each cycle c of 0, 1,  *)
(* 2, the offsets c and 12 + c and the four channels cross@c, total@c,     *)
(* cross@(12+c), total@(12+c).                                             *)
(***************************************************************************)
C10_CyclesFrom13Profiles ==
    (CalibrationBuilt /\ pf.n >= 13) =>
        /\ pc # "raised"
        /\ CyclesCopied(LastFile, pf)

(***************************************************************************)
(* C10 amended: the same for a subset of at least 15 profiles (the last    *)
(* cycle reads profile 14); a shorter subset ends the build with an        *)
(* IndexError.                                                             *)
(***************************************************************************)
C10_CyclesFrom15Profiles ==
    CalibrationBuilt =>
        IF pf.n >= 15
        THEN pc # "raised" /\ CyclesCopied(LastFile, pf)
        ELSE pc = "raised" /\ ~LastFile.closed

C10_Witness ==
    /\ CalibrationBuilt
    /\ pf.n = 15
    /\ pc = "yield_355"
    /\ CyclesCopied(LastFile, pf)

\* the request made last, and whether it asked for a retained calibration
\* window whose subset has fewer than 13 profiles
LastRequest == requests[Len(requests)]

ShortCalibrationSubset ==
    /\ requests # << >>
    /\ LastRequest.phase = "calibration"
    /\ Cardinality(ProfilesIn(repo, LastRequest.start, LastRequest.end)) < 13

(***************************************************************************)
(* C11 as stated: a retained calibration window whose subset has fewer     *)
(* than 13 profiles ends the run with an explicit error, and at that       *)
(* moment no file of the run has been yielded to the caller.               *)
(***************************************************************************)
C11_ShortSubsetFailsBeforeAnyFile ==
    ShortCalibrationSubset =>
        /\ pc = "raised"
        /\ raised \in { "IndexError", "NoMeasurementsInTimePeriod", "OSError" }
        /\ yielded = << >>

(***************************************************************************)
(* C11 amended: such a window ends the run with an explicit error (the     *)
(* error of the request if it raised, else the IndexError of the first     *)
(* cycle's read of profile 12); nothing of that window is yielded and the  *)
(* file holds no datum read from a wrapped index; the files yielded before *)
(* (standard windows, earlier calibration windows) stay yielded.           *)
(***************************************************************************)
C11_ShortSubsetFailsBeforeItsFiles ==
    ShortCalibrationSubset =>
        /\ pc = "raised"
        /\ raised = IF LastRequest.exc # "none" THEN LastRequest.exc
                    ELSE "IndexError"
        /\ \A i \in Items : yielded[i].request # Len(requests)
        /\ LastRequest.exc = "none" =>
               /\ LastFile.kind = "calibration"
               /\ ~LastFile.closed
               /\ Len(LastFile.cycles) = 1
               /\ LastFile.cycles[1].Raw_Lidar_Data =
                      << << ProfileTime(repo, pf, 0), ChannelsOf(LastFile)[1] >>,
                         << ProfileTime(repo, pf, 0), ChannelsOf(LastFile)[2] >> >>

C11_Witness ==
    /\ ShortCalibrationSubset
    /\ LastRequest.exc = "none"
    /\ pf.n > 0 /\ pf.n < 13
    /\ pc = "raised" /\ raised = "IndexError"
    /\ StandardItems # {}

\* the cursor (interval_start) at the head of the pass that made window k
CursorBefore(k) == IF k = 1 THEN measurement_start ELSE windows[k - 1].end

(***************************************************************************)
(* C12: for a positive interval and either value of should_round the       *)
(* standard loop terminates: every pass leaves the cursor later than it    *)
(* found it, so the whole number of seconds left to the effective end      *)
(* decreases at each pass and the cursor reaches or passes the end after   *)
(* finitely many windows.  (The pass is a function of the cursor alone: a  *)
(* pass that does not advance it is repeated for ever.)                    *)
(***************************************************************************)
C12_EveryPassAdvancesCursor ==
    (TimesResolved /\ interval > 0) =>
        \A k \in 1..Len(windows) : windows[k].end > CursorBefore(k)

\* the profiles of the subset that standard item i was built from, and those
\* of them that the calibration mask does not flag
SubsetOf(i) ==
    ProfileSeq(repo, requests[yielded[i].request].start,
                     requests[yielded[i].request].end)

NotFlagged(t) == ~calibration_mask(repo, t)

KeptOf(i) == SelectSeq(SubsetOf(i), NotFlagged)

\* file f holds, for the kept profiles in order, the offsets of their raw
\* clocks from `origin`, and stop = start + 30
OffsetsFrom(f, kept, origin) ==
    /\ Len(f.Raw_Data_Start_Time) = Len(kept)
    /\ Len(f.Raw_Data_Stop_Time) = Len(kept)
    /\ \A j \in 1..Len(kept) :
           /\ f.Raw_Data_Start_Time[j] = TimeOfDay(kept[j]) - origin
           /\ f.Raw_Data_Stop_Time[j] = f.Raw_Data_Start_Time[j] + 30

(***************************************************************************)
(* C13 as stated: in every standard file, for the profiles the mask does   *)
(* not flag, Raw_Data_Start_Time is the profile's raw clock minus the raw  *)
(* clock of the first non-flagged profile of the subset (the first offset  *)
(* written is 0, none is negative) and Raw_Data_Stop_Time is that plus 30, *)
(* also when the subset begins with a flagged profile.                     *)
(***************************************************************************)
C13_OffsetsFromFirstUnflagged ==
    \A i \in StandardItems :
        LET kept == KeptOf(i)
        IN  kept # << >> =>
                /\ OffsetsFrom(FileOf(i), kept, TimeOfDay(kept[1]))
                /\ FileOf(i).Raw_Data_Start_Time[1] = 0
                /\ \A j \in 1..Len(kept) :
                       FileOf(i).Raw_Data_Start_Time[j] >= 0

(***************************************************************************)
(* C13 amended: the clock subtracted is that of the first profile of the   *)
(* subset, flagged or not; so the first offset written is 0 exactly when   *)
(* the subset does not begin with a flagged profile; none is negative and  *)
(* Raw_Data_Stop_Time is the start offset plus 30.                         *)
(***************************************************************************)
C13_OffsetsFromFirstProfile ==
    \A i \in StandardItems :
        LET kept == KeptOf(i)
            first == SubsetOf(i)[1]
        IN  /\ OffsetsFrom(FileOf(i), kept, TimeOfDay(first))
            /\ kept # << >> =>
                   /\ FileOf(i).Raw_Data_Start_Time[1] = 0 <=> NotFlagged(first)
                   /\ \A j \in 1..Len(kept) :
                          FileOf(i).Raw_Data_Start_Time[j] >= 0

C13_Witness ==
    \E i \in StandardItems :
        /\ ~NotFlagged(SubsetOf(i)[1])
        /\ KeptOf(i) # << >>
        /\ FileOf(i).Raw_Data_Start_Time[1] > 0
        /\ FileOf(i).Raw_Data_Stop_Time[1] = FileOf(i).Raw_Data_Start_Time[1] + 30

\* file f holds everything its builder writes and nc.close() was reached
CompletelyWritten(f) ==
    /\ f.closed
    /\ f.kind = "calibration" =>
           /\ Len(f.cycles) = 3
           /\ \A c \in 1..3 : f.cycles[c].complete

(***************************************************************************)
(* C14: at every point of every run (a run that ended with an error of a   *)
(* file build included; a caller that stops pulling leaves the generator   *)
(* at a yield, which is a state of the run) every file created on storage  *)
(* is completely written and closed.                                       *)
(***************************************************************************)
C14_CreatedFilesComplete ==
    \A k \in 1..Len(files) : CompletelyWritten(files[k])

\* the range [start, end) requested for window k
RequestOf(k) == requests[windows[k].request]

\* the ranges requested for windows j and k have no instant in common
Disjoint(j, k) ==
    \/ RequestOf(j).end <= RequestOf(k).start
    \/ RequestOf(k).end <= RequestOf(j).start

\* the profiles written into both of the files of standard items i and j
WrittenTwice(i, j) ==
    { FileOf(i).Raw_Lidar_Data[n] : n \in 1..Len(FileOf(i).Raw_Lidar_Data) }
        \cap
    { FileOf(j).Raw_Lidar_Data[n] : n \in 1..Len(FileOf(j).Raw_Lidar_Data) }

(***************************************************************************)
(* C15 as stated: with should_round false the ranges requested for two     *)
(* different standard windows of a run never overlap, and no raw profile   *)
(* is written into more than one standard file.                            *)
(***************************************************************************)
C15_RequestsNeverOverlap ==
    UnroundedRun =>
        /\ \A j, k \in 1..Len(windows) : j < k => Disjoint(j, k)
        /\ \A i, j \in StandardItems : i < j => WrittenTwice(i, j) = {}

(***************************************************************************)
(* C15 amended: with should_round false and an interval of at least 30 s,  *)
(* the range requested for a window and the one requested for the next     *)
(* window overlap in exactly the 30 s guard after the window's end, ranges *)
(* of windows that are not neighbours do not overlap; so a raw profile is  *)
(* written into at most two standard files, those of two neighbouring      *)
(* windows, and only if it was recorded in the guard of the earlier one.   *)
(***************************************************************************)
C15_RequestsOverlapByGuard ==
    (UnroundedRun /\ interval >= 30) =>
        /\ \A j, k \in 1..Len(windows) :
               /\ k = j + 1 =>
                      /\ RequestOf(k).start = windows[j].end
                      /\ RequestOf(j).end = windows[j].end + 30
                      /\ RequestOf(k).end > RequestOf(j).end
               /\ k > j + 1 => Disjoint(j, k)
        /\ \A i, j \in StandardItems :
               i < j =>
                   \A t \in WrittenTwice(i, j) :
                       /\ WindowOf(j) = WindowOf(i) + 1
                       /\ windows[WindowOf(i)].end <= t
                       /\ t < windows[WindowOf(i)].end + 30

C15_Witness ==
    /\ UnroundedRun
    /\ interval >= 30
    /\ \E i, j \in StandardItems :
           /\ WindowOf(j) = WindowOf(i) + 1
           /\ WrittenTwice(i, j) = { windows[WindowOf(i)].end }

====
